---- MODULE Spec2Model ----
(***************************************************************************)
(* Model of scripts/ai_summary.py: one run of the digest pipeline          *)
(*   download_db -> get_news_data -> analyze_with_gemini -> send_email     *)
(*   -> os.remove                                                          *)
(* Text (titles, model responses) is a sequence of one-character strings,  *)
(* so len(), str.replace() and str.strip() are computed character by       *)
(* character.  The object store, the SQLite snapshot, the generation API,  *)
(* the mail relay and the clock are the environment of the script.         *)
(***************************************************************************)
EXTENDS Integers, Sequences, FiniteSets

VARIABLES
    pc,             \* position of the script in the __main__ block
    snapshot,       \* the day's database in the object store
    apiKeySet,      \* GEMINI_API_KEY is present in the environment
    mailConfigured, \* EMAIL_FROM and EMAIL_TO are present in the environment
    fileExists,     \* daily_news.db exists on the local disk
    fetched,        \* download_db returned the local file name
    news_list,      \* what get_news_data returned
    analyzeCalled,  \* analyze_with_gemini has been entered
    prompt_text,    \* the lines serialized for the prompt
    period_title,   \* the prompt variant chosen from the hour
    idx,            \* index of the candidate model being tried
    calls,          \* generate_content calls made so far, in order
    ai_html,        \* first value analyze_with_gemini returned
    used_model,     \* second value analyze_with_gemini returned
    subjects,       \* day-part labels of the subjects send_email composed
    emails,         \* messages handed to the relay without an error
    smtpAttempts,   \* SMTP sessions opened
    removeAttempts, \* os.remove calls made
    raw,            \* text cleaning: a raw response text
    cleaned,        \* text cleaning: the text after one cleaning
    recleaned       \* text cleaning: the text after cleaning it again

vars == <<pc, snapshot, apiKeySet, mailConfigured, fileExists, fetched,
          news_list, analyzeCalled, prompt_text, period_title, idx, calls,
          ai_html, used_model, subjects, emails, smtpAttempts,
          removeAttempts, raw, cleaned, recleaned>>

-----------------------------------------------------------------------------
(* Bounds of the model *)

MaxRows == 3        \* rows of a small snapshot
MaxCount == 2       \* largest crawl_count of a row of a small snapshot
Extra == 1          \* title groups of a large snapshot beyond LIMIT
MaxTokens == 4      \* pieces a raw response text is built from

(* Constants of the program *)

LIMIT == 200        \* LIMIT 200 of the query
PromptCap == 150    \* news_list[:150]
MinTitleLen == 4    \* len(title) < 4
Noon == 12          \* hour < 12
Evening == 18       \* hour < 18, hour >= 18

-----------------------------------------------------------------------------
(* Values *)

NULL == <<"NULL">>          \* SQL NULL / Python None in a text column
NONE == <<"None">>          \* Python None where a text is expected
NoModel == "None"           \* Python None where a model name is expected
NullUrl == 0                \* SQL NULL in the url column; urls are 1, 2, ...
                            \* in their collation order

Min(a, b) == IF a <= b THEN a ELSE b

SetMax(S) == CHOOSE m \in S : \A x \in S : x <= m

-----------------------------------------------------------------------------
(* The snapshot: table news_items(title, platform_id, url, crawl_count)    *)

T3 == <<"a", "b", "c">>
T4 == <<"a", "b", "c", "d">>
T4e == <<"a", "b", "c", "e">>
T5 == <<"x", "y", "z", "w", "v">>

SmallTitles == {NULL, <<>>, T3, T4, T4e, T5}

\* A row of a small snapshot.  Rows of one source carry no link here, rows
\* of the other carry one.
SmallRows ==
    {[title |-> t, platform_id |-> "weibo", url |-> NullUrl, crawl_count |-> c] :
        t \in SmallTitles, c \in 1..MaxCount}
    \cup
    {[title |-> t, platform_id |-> "zhihu", url |-> 1, crawl_count |-> c] :
        t \in SmallTitles, c \in 1..MaxCount}

RECURSIVE SubsetsUpTo(_, _)
SubsetsUpTo(U, k) ==
    IF k = 0 THEN {{}}
    ELSE LET P == SubsetsUpTo(U, k - 1)
         IN  P \cup {s \cup {x} : s \in P, x \in U}

Digit(d) == CASE d = 0 -> "a" [] d = 1 -> "b" [] d = 2 -> "c" [] OTHER -> "d"

\* The i-th of the four-character titles of a large snapshot.
TitleOf(i) ==
    <<Digit((i \div 64) % 4), Digit((i \div 16) % 4),
      Digit((i \div 4) % 4), Digit(i % 4)>>

\* A large snapshot: n titles of four characters with crawl counts 1..n, a
\* second row for the title of the largest count, and, with withShort, a
\* three-character title seen more often than any other.
LargeRows(n, withShort) ==
    {[title |-> TitleOf(i), platform_id |-> "weibo", url |-> 1, crawl_count |-> i] :
        i \in 1..n}
    \cup {[title |-> TitleOf(n), platform_id |-> "zhihu", url |-> NullUrl,
           crawl_count |-> 1]}
    \cup (IF withShort
          THEN {[title |-> T3, platform_id |-> "zhihu", url |-> 1,
                 crawl_count |-> n + 1]}
          ELSE {})

Present(rows) == [table |-> "present", rows |-> rows]
TableAbsent == [table |-> "absent", rows |-> {}]
TableMalformed == [table |-> "malformed", rows |-> {}]

-----------------------------------------------------------------------------
(* get_news_data *)

\* GROUP BY title: the rows of one group (NULL titles form one group).
Group(rows, t) == {r \in rows : r.title = t}

\* MAX(crawl_count) as heat.
Heat(g) == SetMax({r.crawl_count : r \in g})

\* MAX(url) as link: NULL only when every row of the group has no url.
MaxUrl(g) == SetMax({r.url : r \in g})

\* The bare column platform_id of an aggregate query with two MAX(): SQLite
\* takes it from one of the rows on which one of the aggregates has its
\* maximum; which one is arbitrary.
BarePlatforms(g) ==
    {r.platform_id : r \in {x \in g : x.crawl_count = Heat(g) \/ x.url = MaxUrl(g)}}

\* Faulty variant (sensitivity of C5): the query without GROUP BY.
UngroupedSummaries(rows) ==
    {[title |-> r.title, url |-> r.url, heat |-> r.crawl_count,
      platforms |-> {r.platform_id}] : r \in rows}

\* One summary per group of the query.
Summaries(rows) ==
    {[title |-> t, url |-> MaxUrl(Group(rows, t)), heat |-> Heat(Group(rows, t)),
      platforms |-> BarePlatforms(Group(rows, t))] : t \in {r.title : r \in rows}}

\* The rows of equal heat come out of ORDER BY in any order: every
\* arrangement of such summaries as result rows.
RECURSIVE Arrangements(_)
Arrangements(S) ==
    IF S = {} THEN {<<>>}
    ELSE UNION {
           {<<[title |-> g.title, platform |-> p, url |-> g.url, heat |-> g.heat]>>
               \o rest : p \in g.platforms, rest \in Arrangements(S \ {g})}
           : g \in S}

\* ORDER BY heat DESC: the summaries hotter than a pivot come before the
\* others, each part ordered the same way.
RECURSIVE Ordered(_)
Ordered(S) ==
    LET heats == {g.heat : g \in S}
        lo == CHOOSE h \in heats : \A o \in heats : h <= o
        hi == SetMax(heats)
        mid == (lo + hi) \div 2
    IN  IF S = {} THEN {<<>>}
        ELSE IF lo = hi THEN Arrangements(S)
        ELSE {a \o b : a \in Ordered({g \in S : g.heat > mid}),
                       b \in Ordered({g \in S : g.heat <= mid})}

\* Faulty variant (sensitivity of C6): the query without LIMIT.
QueryLimitOff(s) == s

\* LIMIT 200
QueryLimit(s) == SubSeq(s, 1, Min(Len(s), LIMIT))

\* cursor.fetchall() of the query: every row sequence the query may return.
QueryResults(rows) == {QueryLimit(s) : s \in Ordered(Summaries(rows))}

\* Faulty variant (sensitivity of C7): the test without the length.
SkipTitleNoLen(title) == title = NULL \/ title = <<>>

\* if not title or len(title) < 4: continue
SkipTitle(title) == title = NULL \/ title = <<>> \/ Len(title) < MinTitleLen

KeepRows(fetched_rows) == SelectSeq(fetched_rows, LAMBDA r : ~SkipTitle(r.title))

\* Every list get_news_data may return for a snapshot.  A missing table
\* returns [] at once; a query that raises (a table without the columns)
\* is caught and returns [] too.
GetNewsResults(snap) ==
    CASE snap.table = "absent" -> {<<>>}
      [] snap.table = "malformed" -> {<<>>}
      [] OTHER -> {KeepRows(s) : s \in QueryResults(snap.rows)}

\* news_list[:150] serialized as one "[platform] title" line per record.
PromptLines(nl) ==
    [i \in 1..Min(Len(nl), PromptCap) |-> <<nl[i].platform, nl[i].title>>]

-----------------------------------------------------------------------------
(* Text cleaning: the two replace calls and the strip of a response text   *)

\* The grave accent (U+0060), written as a named character.
BT == "grave"
Fence == <<BT, BT, BT>>
FenceHtml == Fence \o <<"h", "t", "m", "l">>
Whitespace == {" ", "\n", "\t"}

\* Faulty variant (sensitivity of C8): only the first occurrence is removed.
RECURSIVE RemoveFirst(_, _)
RemoveFirst(s, pat) ==
    IF Len(s) < Len(pat) THEN s
    ELSE IF SubSeq(s, 1, Len(pat)) = pat
         THEN SubSeq(s, Len(pat) + 1, Len(s))
         ELSE <<Head(s)>> \o RemoveFirst(Tail(s), pat)

\* str.replace(pat, empty): every non-overlapping occurrence, left to right.
RECURSIVE Remove(_, _)
Remove(s, pat) ==
    IF Len(s) < Len(pat) THEN s
    ELSE IF SubSeq(s, 1, Len(pat)) = pat
         THEN Remove(SubSeq(s, Len(pat) + 1, Len(s)), pat)
         ELSE <<Head(s)>> \o Remove(Tail(s), pat)

RECURSIVE LStrip(_)
LStrip(s) ==
    IF s # <<>> /\ Head(s) \in Whitespace THEN LStrip(Tail(s)) ELSE s

RECURSIVE RStrip(_)
RStrip(s) ==
    IF s # <<>> /\ s[Len(s)] \in Whitespace
    THEN RStrip(SubSeq(s, 1, Len(s) - 1)) ELSE s

Strip(s) == LStrip(RStrip(s))

\* Faulty variant (sensitivity of C8).
CleanFirstOnly(text) == Strip(RemoveFirst(RemoveFirst(text, FenceHtml), Fence))

\* text.replace(FenceHtml, empty).replace(Fence, empty).strip()
Clean(text) == Strip(Remove(Remove(text, FenceHtml), Fence))

-----------------------------------------------------------------------------
(* analyze_with_gemini, send_email, __main__ *)

candidate_models ==
    <<"gemini-3-pro-preview", "gemini-2.5-pro", "gemini-2.5-flash",
      "gemini-2.5-flash-lite">>

Hours == 0..23

\* period_title of the prompt, transliterated: "zaobao" (morning paper),
\* "wujian-sulan" (midday overview), "wanjian-huigu" (evening review).
PeriodTitle(hour) ==
    IF hour < Noon THEN "zaobao"
    ELSE IF hour < Evening THEN "wujian-sulan"
    ELSE "wanjian-huigu"

\* period of the subject, transliterated: "wanjian" (evening), "wujian"
\* (midday).
SubjectPeriod(hour) == IF hour >= Evening THEN "wanjian" ELSE "wujian"

\* What one generate_content call does: it raises an error whose message
\* names a 404 / "not found", it raises another error, it returns a
\* response without text (response.text is None), or it returns a text.
Raises == {"notfound", "error"}

\* Faulty variant (sensitivity of C2): only a not-found error continues.
AfterErrorAbort(kind) == IF kind = "notfound" THEN "continue" ELSE "abort"

\* except Exception: both branches continue with the next candidate.
AfterError(kind) == IF kind = "notfound" THEN "continue" ELSE "continue"

\* Faulty variant (sensitivity of C1): the preferred model is reported.
ReportedModelFirst(i) == candidate_models[1]

\* return text, model_name: the name of the candidate the loop is at.
ReportedModel(i) == candidate_models[i]

\* Faulty variant (sensitivity of C10): the text is not tested.
SendDecisionModelOnly(html, model) == model # NoModel

\* if ai_html and used_model
SendDecision(html, model) == html # NONE /\ html # <<>> /\ model # NoModel

\* Faulty variant (sensitivity of C3): the list is not tested.
AfterExtractAlways(nl) == "analyze"

\* if news_list: ... else: skip
AfterExtract(nl) == IF nl # <<>> THEN "analyze" ELSE "cleanup"

-----------------------------------------------------------------------------
(* Inputs *)

Row(t, p, u, c) == [title |-> t, platform_id |-> p, url |-> u, crawl_count |-> c]

\* Snapshots of the whole-pipeline specification.
MainSnapshots ==
    {TableAbsent, TableMalformed, Present({}),
     Present({Row(T3, "weibo", NullUrl, 2)}),
     Present({Row(T4, "weibo", NullUrl, 1)}),
     Present({Row(T4, "weibo", NullUrl, 1), Row(T4, "zhihu", 1, 2),
              Row(T5, "zhihu", 1, 2)})}

\* Snapshots of the extraction specification.
ExtractSnapshots ==
    {TableAbsent, TableMalformed}
    \cup {Present(rs) : rs \in SubsetsUpTo(SmallRows, MaxRows)}
    \cup {Present(LargeRows(n, b)) : n \in (LIMIT - 1)..(LIMIT + Extra), b \in BOOLEAN}

\* Response texts of the whole-pipeline specification: fenced HTML, bare
\* text, and a fence with nothing in it.
MainRawTexts ==
    {FenceHtml \o <<"\n", "x", "\n">> \o Fence, <<"x">>, Fence \o <<" ">>}

\* Response texts of the cleaning specification: up to MaxTokens pieces.
Tokens == {<<BT>>, Fence, FenceHtml, <<" ">>, <<"\n">>, <<"x">>, <<"h">>}

RECURSIVE TextsUpTo(_)
TextsUpTo(k) ==
    IF k = 0 THEN {<<>>}
    ELSE LET P == TextsUpTo(k - 1)
         IN  P \cup {t \o tok : t \in P, tok \in Tokens}

-----------------------------------------------------------------------------
(* The script *)

Defaults ==
    /\ fileExists = FALSE
    /\ fetched = FALSE
    /\ news_list = <<>>
    /\ analyzeCalled = FALSE
    /\ prompt_text = <<>>
    /\ period_title = "unset"
    /\ idx = 1
    /\ calls = <<>>
    /\ ai_html = NONE
    /\ used_model = NoModel
    /\ subjects = <<>>
    /\ emails = <<>>
    /\ smtpAttempts = 0
    /\ removeAttempts = 0
    /\ cleaned = NONE
    /\ recleaned = NONE

Init ==
    /\ pc = "start"
    /\ snapshot \in MainSnapshots
    /\ apiKeySet \in BOOLEAN
    /\ mailConfigured \in BOOLEAN
    /\ raw = <<>>
    /\ Defaults

\* download_db: the object is fetched to daily_news.db, or the download
\* raises and None is returned; __main__ then skips the run.
download_db ==
    /\ pc = "start"
    /\ \E ok \in BOOLEAN :
         /\ fileExists' = ok
         /\ fetched' = ok
         /\ pc' = IF ok THEN "extract" ELSE "done"
    /\ UNCHANGED <<snapshot, apiKeySet, mailConfigured, news_list, analyzeCalled,
                   prompt_text, period_title, idx, calls, ai_html, used_model,
                   subjects, emails, smtpAttempts, removeAttempts, raw, cleaned,
                   recleaned>>

\* news_list = get_news_data(db_file); if news_list: ... else: skip.
get_news_data ==
    /\ pc = "extract"
    /\ \E nl \in GetNewsResults(snapshot) :
         /\ news_list' = nl
         /\ pc' = AfterExtract(nl)
    /\ UNCHANGED <<snapshot, apiKeySet, mailConfigured, fileExists, fetched,
                   analyzeCalled, prompt_text, period_title, idx, calls, ai_html,
                   used_model, subjects, emails, smtpAttempts, removeAttempts,
                   raw, cleaned, recleaned>>

\* analyze_with_gemini, up to the prompt lines: an empty list returns
\* (None, None) at once.
AnalyzeSerialize ==
    /\ pc = "analyze"
    /\ analyzeCalled' = TRUE
    /\ IF news_list = <<>>
       THEN /\ pc' = "decide"
            /\ UNCHANGED prompt_text
       ELSE /\ prompt_text' = PromptLines(news_list)
            /\ pc' = "client"
    /\ UNCHANGED <<snapshot, apiKeySet, mailConfigured, fileExists, fetched,
                   news_list, period_title, idx, calls, ai_html, used_model,
                   subjects, emails, smtpAttempts, removeAttempts, raw, cleaned,
                   recleaned>>

\* genai.Client(api_key=GEMINI_API_KEY) and the choice of the prompt variant.
\* The client constructor raises ValueError without a key; nothing up to
\* the end of the script catches it, so the process ends there.
AnalyzeInit ==
    /\ pc = "client"
    /\ IF apiKeySet
       THEN \E hour \in Hours :
              /\ period_title' = PeriodTitle(hour)
              /\ idx' = 1
              /\ pc' = "try"
       ELSE /\ pc' = "crashed"
            /\ UNCHANGED <<period_title, idx>>
    /\ UNCHANGED <<snapshot, apiKeySet, mailConfigured, fileExists, fetched,
                   news_list, analyzeCalled, prompt_text, calls, ai_html,
                   used_model, subjects, emails, smtpAttempts, removeAttempts,
                   raw, cleaned, recleaned>>

Call(model, outcome, text) == [model |-> model, outcome |-> outcome, text |-> text]

\* The loop leaves candidate idx after an exception of the given kind.
Fallback(kind) ==
    IF AfterError(kind) = "continue" /\ idx < Len(candidate_models)
    THEN /\ idx' = idx + 1
         /\ pc' = "try"
         /\ UNCHANGED <<ai_html, used_model>>
    ELSE /\ ai_html' = NONE
         /\ used_model' = NoModel
         /\ pc' = "decide"
         /\ UNCHANGED idx

\* One pass of the loop: generate_content raises.
TryModelRaises ==
    /\ pc = "try"
    /\ \E kind \in Raises :
         /\ calls' = Append(calls, Call(candidate_models[idx], kind, NONE))
         /\ Fallback(kind)
    /\ UNCHANGED <<snapshot, apiKeySet, mailConfigured, fileExists, fetched,
                   news_list, analyzeCalled, prompt_text, period_title, subjects,
                   emails, smtpAttempts, removeAttempts, raw, cleaned, recleaned>>

\* One pass of the loop: generate_content returns a response whose text is
\* None; text.replace raises AttributeError inside the try block, and the
\* message names neither 404 nor "not found".
TryModelNoText ==
    /\ pc = "try"
    /\ calls' = Append(calls, Call(candidate_models[idx], "notext", NONE))
    /\ Fallback("error")
    /\ UNCHANGED <<snapshot, apiKeySet, mailConfigured, fileExists, fetched,
                   news_list, analyzeCalled, prompt_text, period_title, subjects,
                   emails, smtpAttempts, removeAttempts, raw, cleaned, recleaned>>

\* One pass of the loop: generate_content returns a text; it is cleaned and
\* returned with the model's name.
TryModelText ==
    /\ pc = "try"
    /\ \E text \in MainRawTexts :
         /\ calls' = Append(calls, Call(candidate_models[idx], "text", text))
         /\ ai_html' = Clean(text)
         /\ used_model' = ReportedModel(idx)
         /\ pc' = "decide"
    /\ UNCHANGED <<snapshot, apiKeySet, mailConfigured, fileExists, fetched,
                   news_list, analyzeCalled, prompt_text, period_title, idx,
                   subjects, emails, smtpAttempts, removeAttempts, raw, cleaned,
                   recleaned>>

\* if ai_html and used_model: appendix and send_email, else skip.
MainDecide ==
    /\ pc = "decide"
    /\ pc' = IF SendDecision(ai_html, used_model) THEN "send" ELSE "cleanup"
    /\ UNCHANGED <<snapshot, apiKeySet, mailConfigured, fileExists, fetched,
                   news_list, analyzeCalled, prompt_text, period_title, idx,
                   calls, ai_html, used_model, subjects, emails, smtpAttempts,
                   removeAttempts, raw, cleaned, recleaned>>

\* send_email: skipped without the mail variables; otherwise the subject is
\* composed from the hour read now, and the SMTP session delivers the
\* message or raises, which is caught.
send_email ==
    /\ pc = "send"
    /\ IF ~mailConfigured
       THEN UNCHANGED <<subjects, emails, smtpAttempts>>
       ELSE \E hour \in Hours, delivered \in BOOLEAN :
              /\ subjects' = Append(subjects,
                                    [hour |-> hour, period |-> SubjectPeriod(hour)])
              /\ smtpAttempts' = smtpAttempts + 1
              /\ emails' = IF delivered
                           THEN Append(emails,
                                       [period |-> SubjectPeriod(hour),
                                        summary |-> ai_html,
                                        appendix |-> Len(news_list),
                                        model |-> used_model])
                           ELSE emails
    /\ pc' = "cleanup"
    /\ UNCHANGED <<snapshot, apiKeySet, mailConfigured, fileExists, fetched,
                   news_list, analyzeCalled, prompt_text, period_title, idx,
                   calls, ai_html, used_model, removeAttempts, raw, cleaned,
                   recleaned>>

\* try: os.remove(db_file) except: pass
Cleanup ==
    /\ pc = "cleanup"
    /\ removeAttempts' = removeAttempts + 1
    /\ \E removed \in BOOLEAN :
         fileExists' = IF removed THEN FALSE ELSE fileExists
    /\ pc' = "done"
    /\ UNCHANGED <<snapshot, apiKeySet, mailConfigured, fetched, news_list,
                   analyzeCalled, prompt_text, period_title, idx, calls, ai_html,
                   used_model, subjects, emails, smtpAttempts, raw, cleaned,
                   recleaned>>

Next ==
    \/ download_db
    \/ get_news_data
    \/ AnalyzeSerialize
    \/ AnalyzeInit
    \/ TryModelRaises
    \/ TryModelNoText
    \/ TryModelText
    \/ MainDecide
    \/ send_email
    \/ Cleanup

Spec == Init /\ [][Next]_vars

-----------------------------------------------------------------------------
(* Extraction over many snapshots *)

InitExtract ==
    /\ pc = "start"
    /\ snapshot \in ExtractSnapshots
    /\ apiKeySet = TRUE
    /\ mailConfigured = TRUE
    /\ raw = <<>>
    /\ Defaults

NextExtract ==
    \/ download_db
    \/ get_news_data
    \/ AnalyzeSerialize

SpecExtract == InitExtract /\ [][NextExtract]_vars

-----------------------------------------------------------------------------
(* Cleaning over many response texts *)

InitClean ==
    /\ pc = "clean"
    /\ snapshot = TableAbsent
    /\ apiKeySet = TRUE
    /\ mailConfigured = TRUE
    /\ raw \in TextsUpTo(MaxTokens)
    /\ Defaults

\* The text analyze_with_gemini returns for the response text raw.
CleanText ==
    /\ pc = "clean"
    /\ cleaned' = Clean(raw)
    /\ pc' = "reclean"
    /\ UNCHANGED <<snapshot, apiKeySet, mailConfigured, fileExists, fetched,
                   news_list, analyzeCalled, prompt_text, period_title, idx,
                   calls, ai_html, used_model, subjects, emails, smtpAttempts,
                   removeAttempts, raw, recleaned>>

\* The same cleaning applied to the cleaned text.
CleanAgain ==
    /\ pc = "reclean"
    /\ recleaned' = Clean(cleaned)
    /\ pc' = "cleaned"
    /\ UNCHANGED <<snapshot, apiKeySet, mailConfigured, fileExists, fetched,
                   news_list, analyzeCalled, prompt_text, period_title, idx,
                   calls, ai_html, used_model, subjects, emails, smtpAttempts,
                   removeAttempts, raw, cleaned>>

NextClean ==
    \/ CleanText
    \/ CleanAgain

SpecClean == InitClean /\ [][NextClean]_vars

-----------------------------------------------------------------------------
(* Properties of the model-fallback loop *)

\* analyze_with_gemini has returned after trying at least one candidate.
LoopFinished == calls # <<>> /\ pc \in {"decide", "send", "cleanup", "done"}

\* Calls that returned a response / that returned a response with a text.
ReturnedCalls == {i \in DOMAIN calls : calls[i].outcome \in {"text", "notext"}}
TextCalls == {i \in DOMAIN calls : calls[i].outcome = "text"}
First(S) == CHOOSE k \in S : \A j \in S : k <= j

\* The candidates are called in list order, one call each, and a call that
\* returned a text is the last call made.
CalledInOrder ==
    /\ Len(calls) <= Len(candidate_models)
    /\ \A i \in DOMAIN calls : calls[i].model = candidate_models[i]
    /\ \A i \in TextCalls : i = Len(calls)

\* C1 as stated: the candidates are tried in list order and the result is
\* the cleaned text and the identifier of the first candidate whose
\* generation call succeeds (returns a response); no later candidate is
\* called.
C1_FirstReturningCallWins ==
    /\ CalledInOrder
    /\ (LoopFinished /\ ReturnedCalls # {}) =>
          /\ used_model = candidate_models[First(ReturnedCalls)]
          /\ ai_html = Clean(calls[First(ReturnedCalls)].text)
          /\ Len(calls) = First(ReturnedCalls)

\* C1 as amended: the candidates are tried in list order and the result is
\* the cleaned text and the identifier of the first candidate whose call
\* returns a response that carries a text; a call that raises, or returns a
\* response without text, makes the loop go on to the next candidate; no
\* candidate after the one that returned a text is called.
C1_FirstTextWins ==
    /\ CalledInOrder
    /\ (LoopFinished /\ TextCalls # {}) =>
          /\ used_model = candidate_models[First(TextCalls)]
          /\ ai_html = Clean(calls[First(TextCalls)].text)
          /\ Len(calls) = First(TextCalls)
    /\ (LoopFinished /\ Len(calls) >= 2 /\ calls[1].outcome = "notfound"
            /\ calls[2].outcome = "text") =>
          /\ used_model = candidate_models[2]
          /\ ai_html = Clean(calls[2].text)
          /\ Len(calls) = 2

\* The first candidate failed with a not-found error, the second returned
\* fenced HTML, and the loop has returned.
C1_Witness ==
    /\ pc = "decide"
    /\ Len(calls) = 2
    /\ calls[1].outcome = "notfound"
    /\ calls[2].outcome = "text"
    /\ calls[2].text = FenceHtml \o <<"\n", "x", "\n">> \o Fence
    /\ ai_html = <<"x">>
    /\ used_model = "gemini-2.5-pro"

\* C2: when every candidate's call raises, whatever the class of each
\* error, analyze_with_gemini returns (None, None) after exactly one call
\* per candidate, and the run sends no email.
C2_AllFailNoResultNoEmail ==
    (LoopFinished /\ \A i \in DOMAIN calls : calls[i].outcome \in Raises) =>
        /\ ai_html = NONE
        /\ used_model = NoModel
        /\ Len(calls) = Len(candidate_models)
        /\ \A i \in DOMAIN calls : calls[i].model = candidate_models[i]
        /\ pc # "send"
        /\ smtpAttempts = 0
        /\ subjects = <<>>
        /\ emails = <<>>

\* All four candidates raised, with errors of both classes, and the run is
\* over.
C2_Witness ==
    /\ pc = "done"
    /\ mailConfigured
    /\ Len(calls) = 4
    /\ \A i \in DOMAIN calls : calls[i].outcome \in Raises
    /\ calls[1].outcome = "notfound"
    /\ calls[2].outcome = "error"
    /\ ai_html = NONE
    /\ emails = <<>>

-----------------------------------------------------------------------------
(* Properties of the run *)

NoRows ==
    \/ snapshot.table = "absent"
    \/ snapshot.table = "present" /\ snapshot.rows = {}

\* C3: with news_items absent or without rows, get_news_data returns an
\* empty list without raising, and the run goes on to its end without
\* calling the summarizer or attempting to deliver an email.
C3_NoRowsNoSummaryNoEmail ==
    (NoRows /\ pc \notin {"start", "extract"}) =>
        /\ news_list = <<>>
        /\ pc \in {"cleanup", "done"}
        /\ ~analyzeCalled
        /\ calls = <<>>
        /\ smtpAttempts = 0
        /\ subjects = <<>>
        /\ emails = <<>>

\* A fetched snapshot without the table, and the run is over.
C3_Witness ==
    /\ pc = "done"
    /\ fetched
    /\ snapshot.table = "absent"
    /\ news_list = <<>>
    /\ removeAttempts = 1

\* C4 as stated: a run that fetched the snapshot calls os.remove before the
\* process ends, on every path to the end of the process.
C4_RemovalAttemptedOnEveryExit ==
    (fetched /\ pc \in {"done", "crashed"}) => removeAttempts >= 1

\* The day-part a label denotes.
DayPartOfPrompt(label) ==
    CASE label = "zaobao" -> "morning"
      [] label = "wujian-sulan" -> "midday"
      [] OTHER -> "evening"
DayPartOfSubject(label) == IF label = "wujian" THEN "midday" ELSE "evening"

\* C9 as stated: the day-part label of every subject composed at hour h
\* denotes the bucket of the prompt variant chosen for hour h.
C9_SubjectMatchesPromptBucket ==
    \A i \in DOMAIN subjects :
        DayPartOfSubject(subjects[i].period)
            = DayPartOfPrompt(PeriodTitle(subjects[i].hour))

\* C10: at most one email is sent in a run, and only with a non-empty
\* cleaned text; when the first call that returns a text returns one that
\* is empty after cleaning, the loop still stops there and the run sends no
\* email.
C10_EmailOnlyWithText ==
    /\ Len(emails) <= 1
    /\ smtpAttempts <= 1
    /\ Len(subjects) <= 1
    /\ (pc = "send" \/ smtpAttempts > 0 \/ emails # <<>>) =>
          /\ ai_html # NONE
          /\ ai_html # <<>>
          /\ used_model # NoModel
    /\ \A i \in DOMAIN emails : emails[i].summary = ai_html /\ ai_html # <<>>
    /\ (LoopFinished /\ TextCalls # {}
            /\ Clean(calls[First(TextCalls)].text) = <<>>) =>
          /\ Len(calls) = First(TextCalls)
          /\ ai_html = <<>>
          /\ pc # "send"
          /\ smtpAttempts = 0
          /\ emails = <<>>

\* The first candidate returned a fence with nothing in it, mail is
\* configured, and the run is over.
C10_Witness ==
    /\ pc = "done"
    /\ mailConfigured
    /\ Len(calls) = 1
    /\ calls[1].outcome = "text"
    /\ calls[1].text = Fence \o <<" ">>
    /\ ai_html = <<>>
    /\ used_model = "gemini-3-pro-preview"
    /\ emails = <<>>

-----------------------------------------------------------------------------
(* Properties of get_news_data and of the prompt lines *)

\* get_news_data has returned for a snapshot with the table.
Extracted == fetched /\ pc # "extract" /\ snapshot.table = "present"

SnapshotTitles == {r.title : r \in snapshot.rows}

\* The largest crawl_count among the rows of a title.
MaxCrawl(t) ==
    CHOOSE c \in {r.crawl_count : r \in {x \in snapshot.rows : x.title = t}} :
        \A r \in snapshot.rows : r.title = t => r.crawl_count <= c

Occurrences(t) == Cardinality({i \in DOMAIN news_list : news_list[i].title = t})

DuplicateTitles ==
    {t \in SnapshotTitles :
        \E r1, r2 \in snapshot.rows : r1.title = t /\ r2.title = t /\ r1 # r2}

LongTitle(t) == t # NULL /\ Len(t) >= MinTitleLen

\* C5 as stated: for a snapshot with duplicate titles the returned list
\* holds each distinct title of the snapshot exactly once, with the largest
\* crawl_count of the title's rows as its heat.
C5_EachTitleExactlyOnce ==
    (Extracted /\ DuplicateTitles # {}) =>
        \A t \in SnapshotTitles :
            /\ Occurrences(t) = 1
            /\ \A i \in DOMAIN news_list :
                  news_list[i].title = t => news_list[i].heat = MaxCrawl(t)

\* C5 as amended: no title occurs twice in the returned list, every record
\* carries a title of the snapshot with the largest crawl_count of that
\* title's rows as its heat, and a title of the snapshot occurs exactly
\* once when it is not null, has at least 4 characters and at most 200
\* titles of the snapshot have a heat as large as its own.
C5_TitlesOnceWithMaxHeat ==
    Extracted =>
        LET heatOf == {<<t, MaxCrawl(t)>> : t \in SnapshotTitles}
        IN  /\ \A i, j \in DOMAIN news_list :
                  news_list[i].title = news_list[j].title => i = j
            /\ \A i \in DOMAIN news_list :
                  <<news_list[i].title, news_list[i].heat>> \in heatOf
            /\ \A p \in heatOf :
                  (LongTitle(p[1])
                     /\ Cardinality({q \in heatOf : q[2] >= p[2]}) <= LIMIT)
                  => Occurrences(p[1]) = 1

\* A four-character title with two rows of different crawl_count, returned
\* once with the larger count.
C5_Witness ==
    /\ Extracted
    /\ T4 \in DuplicateTitles
    /\ \E r1, r2 \in snapshot.rows :
          r1.title = T4 /\ r2.title = T4 /\ r1.crawl_count < r2.crawl_count
    /\ Occurrences(T4) = 1
    /\ \E i \in DOMAIN news_list :
          news_list[i].title = T4 /\ news_list[i].heat = 2

\* C6: the returned list is sorted non-increasing by heat and holds at most
\* 200 records; the prompt lines are its first 150 records at most, in the
\* same order.
C6_SortedTruncatedSerialized ==
    /\ Extracted =>
          /\ Len(news_list) <= 200
          /\ \A i \in 1..(Len(news_list) - 1) :
                news_list[i].heat >= news_list[i + 1].heat
    /\ (Extracted /\ pc = "client") =>
          /\ Len(prompt_text) <= 150
          /\ Len(prompt_text) = Min(Len(news_list), 150)
          /\ \A i \in DOMAIN prompt_text :
                prompt_text[i] = <<news_list[i].platform, news_list[i].title>>

\* More than 200 titles in the snapshot, 200 records returned, 150 prompt
\* lines built.
C6_Witness ==
    /\ Extracted
    /\ pc = "client"
    /\ Cardinality(SnapshotTitles) > 200
    /\ Len(news_list) = 200
    /\ news_list[1].heat > news_list[200].heat
    /\ Len(prompt_text) = 150

\* C7: no record of the returned list has a null or empty title or one of
\* fewer than 4 characters.
C7_NoShortTitle ==
    Extracted =>
        \A i \in DOMAIN news_list :
            /\ news_list[i].title # NULL
            /\ news_list[i].title # <<>>
            /\ Len(news_list[i].title) >= 4

\* The hottest title of the snapshot has three characters, a null title
\* and a four-character title are colder, and only the last is returned.
C7_Witness ==
    /\ Extracted
    /\ SnapshotTitles = {NULL, T3, T4}
    /\ MaxCrawl(T3) = 2
    /\ MaxCrawl(T4) = 1
    /\ Len(news_list) = 1
    /\ news_list[1].title = T4

-----------------------------------------------------------------------------
(* Properties of the cleaning *)

HasFence(s) == \E i \in 1..(Len(s) - 2) : SubSeq(s, i, i + 2) = <<BT, BT, BT>>

\* C8: the cleaned text holds no run of three grave accents and neither
\* starts nor ends with whitespace, and cleaning it again changes nothing.
C8_CleanedAndStable ==
    /\ pc \in {"reclean", "cleaned"} =>
          /\ ~HasFence(cleaned)
          /\ cleaned # <<>> =>
                /\ cleaned[1] \notin {" ", "\n", "\t"}
                /\ cleaned[Len(cleaned)] \notin {" ", "\n", "\t"}
    /\ pc = "cleaned" => recleaned = cleaned

\* A text fenced as HTML with whitespace inside the fence, cleaned twice.
C8_Witness ==
    /\ pc = "cleaned"
    /\ raw = <<BT, BT, BT, "h", "t", "m", "l", "\n", "x", BT, BT, BT>>
    /\ cleaned = <<"x">>
    /\ recleaned = <<"x">>

====
